---- MODULE Spec2Model ----
\* ASCII playback session of serika-cli (src/index.js, playVideoAscii):
\* frame assembler, bounded frame queue, single-flight renderer, teardown.
\* Every handler of the Node event loop runs to completion, so each handler
\* (stream 'data', setImmediate callback, key press, timer, child-process
\* 'error' / 'close') is one atomic action.
EXTENDS Integers, Sequences, FiniteSets, TLC

\* ---------------------------------------------------------------- bounds
\* Largest configured asciiWidth explored (the smallest with height > 0 is 4).
MaxWidth == 5
\* Longest chunk, in bytes, one 'data' event of a session delivers.
MaxChunk == 26
\* Bytes the decoder writes in one modelled session.
MaxStream == 40
\* Frames in the largest chunk of the burst specification.
BurstFrames == 32
\* Frames the decoder writes in one run of the burst specification.
MaxBurstStream == 34
\* Iterations of the slicing loop followed in the loop specification.
MaxSliceSteps == 6
\* Nested calls followed before the call stack is taken to be exhausted.
MaxStack == 12

\* ------------------------------------------------------- program constants
\* frameQueue.length > 30
MaxQueueLen == 30
\* brightness / 255
MaxByte == 255
\* key[0] === 0x03
CtrlC == 3

\* CHARSETS: each ramp as the sequence of its characters.
CHARSETS ==
  [ standard |-> <<" ", ".", ":", "-", "=", "+", "*", "#", "%", "@">>,
    simple   |-> <<" ", ".", ":", "+", "@">>,
    blocks   |-> <<" ", "U+2591", "U+2592", "U+2593", "U+2588">>,
    solid    |-> <<"U+2588">> ]

\* Values config.get('asciiCharset') can hold: the four menu choices, and a
\* name that is no key of CHARSETS (a hand-edited settings file).
CharsetNames == {"standard", "simple", "blocks", "solid", "unknown"}

\* The ramp lookup without the `|| CHARSETS.standard` fallback: a name that is
\* no key of CHARSETS yields no ramp at all.
CharsNoFallback(charsetName) ==
  IF charsetName \in DOMAIN CHARSETS THEN CHARSETS[charsetName] ELSE <<>>

\* const chars = CHARSETS[charsetName] || CHARSETS.standard
Chars(charsetName) ==
  IF charsetName \in DOMAIN CHARSETS THEN CHARSETS[charsetName]
  ELSE CHARSETS.standard

\* const height = Math.floor(width * (9 / 16) * 0.55).  9/16 * 0.55 = 99/320;
\* the double computation equals the exact floor for every width below 2000.
Height(w) == (w * 99) \div 320

\* const frameSize = width * height * 3
FrameSize(w) == w * Height(w) * 3

\* (sum, rampLength) pairs where the double expression
\* (sum / 3) / 255 * (rampLength - 1) lands just below the exact integer
\* value, so Math.floor yields one less than the rational floor.  Computed
\* with IEEE-754 doubles for every sum in 0..765 and every ramp length 1..10.
FloatRoundedDown == { <<425, 10>> }

\* The index scaled by chars.length instead of chars.length - 1.
CharIndexBug(r, g, b, ramp) ==
  ((r + g + b) * Len(ramp)) \div (3 * MaxByte)

\* const brightness = (r + g + b) / 3;
\* const charIndex = Math.floor((brightness / 255) * (chars.length - 1));
\* 0-based, as in the source.
CharIndex(r, g, b, ramp) ==
  LET sum   == r + g + b
      exact == (sum * (Len(ramp) - 1)) \div (3 * MaxByte)
  IN  IF <<sum, Len(ramp)>> \in FloatRoundedDown THEN exact - 1 ELSE exact

\* A chunk of n bytes; byte i has value (v + i - 1) mod 256, so neighbouring
\* bytes differ and a misplaced slice is visible.
Chunk(n, v) == [i \in 1..n |-> (v + i - 1) % (MaxByte + 1)]

\* key.toString().toLowerCase() on the bytes of a key chunk (ASCII letters).
ToLowerCase(key) ==
  [i \in 1..Len(key) |-> IF key[i] >= 65 /\ key[i] <= 90 THEN key[i] + 32 ELSE key[i]]

\* key[0] === 0x03 || key.toString().toLowerCase() === 'q'
IsCancelKey(key) == key[1] = CtrlC \/ ToLowerCase(key) = <<113>>

\* ------------------------------------------------------------------ state
VARIABLES
  width,        \* config.get('asciiWidth')
  frameSize,    \* width * height * 3
  chars,        \* the glyph ramp in use
  isTTY,        \* process.stdin.isTTY
  buffer,       \* pending bytes of the frame assembler
  frameQueue,   \* queued frames, each [seq, bytes]; seq is the object identity
  isProcessing, \* single-flight flag
  firstFrame,   \* first-frame setup not done yet
  frameCount,   \* frames rendered
  immediates,   \* setImmediate(processNextFrame) callbacks scheduled
  cleanedUp,    \* one-shot guard of cleanup
  stdin,        \* [raw, flowing, listener]: input mode and the key listener
  ffmpeg,       \* decoder child process
  audioPlayer,  \* audio child process
  graceTimer,   \* "none" | "pending" | "fired": setTimeout(resolve, 100)
  resolved,     \* the promise of playVideoAscii is settled
  resolveCalls, \* calls of resolve()
  crashed,      \* an 'error' event without listener was thrown: process dead
  events,       \* child-process events emitted so far
  reports,      \* "ffmpeg not found" messages printed
  termLog,      \* cursor / clear escapes written, in order
  screen,       \* cells of the last frame written: <<r, g, b, glyph>>
  teardown,     \* how often each teardown step of cleanup has run
  stream,       \* history: every byte the decoder has delivered
  assembled,    \* history: every frame the assembler has sliced, in order
  evicted,      \* history: seq of every frame dropped from the queue
  renderLog,    \* history: seq of every frame passed to renderFrame
  enqueueSteps, \* history: the enqueue steps of the last 'data' handler
  rendersInTurn,\* history: frames rendered by the last callback
  pixel,        \* glyph specification: the pixel <<r, g, b>>
  charIndex,    \* glyph specification: <<>>, then <<index>> once rendered
  loopPc,       \* loop specification: "idle" | "slicing" inside the 'data' handler
  call          \* call specification: the playVideo / playVideoAscii call chain

vars == << width, frameSize, chars, isTTY, buffer, frameQueue, isProcessing,
           firstFrame, frameCount, immediates, cleanedUp, stdin, ffmpeg,
           audioPlayer, graceTimer, resolved, resolveCalls, crashed, events,
           reports, termLog,
           screen, teardown, stream, assembled, evicted, renderLog,
           enqueueSteps, rendersInTurn, pixel, charIndex, loopPc, call >>

configVars   == << width, frameSize, chars, isTTY >>
assemblerVars == << buffer, stream, assembled, evicted, enqueueSteps >>
renderVars   == << frameQueue, isProcessing, firstFrame, frameCount, immediates,
                   termLog, screen, renderLog, rendersInTurn >>
cleanupVars  == << cleanedUp, stdin, ffmpeg, audioPlayer, teardown >>
glyphVars    == << pixel, charIndex >>
callVars     == << loopPc, call >>

\* --------------------------------------------------------------- renderer
\* The text blob of one frame (lines 143-160): one cell <<r, g, b, glyph>>
\* per pixel, row by row; offset = (y * width + x) * 3.
RenderOutput(frame) ==
  [y \in 1..Height(width) |->
    [x \in 1..width |->
      LET offset == ((y - 1) * width + (x - 1)) * 3
          r == frame[offset + 1]
          g == frame[offset + 2]
          b == frame[offset + 3]
      IN  <<r, g, b, chars[CharIndex(r, g, b, chars) + 1]>>]]

\* renderFrame(frame): the one-time setup on the first frame, then the write.
\* s carries the renderer's variables; frame is [seq, bytes].
RenderFrame(frame, s) ==
  [s EXCEPT
    !.termLog    = IF s.firstFrame THEN s.termLog \o <<"clear", "hide">>
                   ELSE s.termLog,
    !.firstFrame = FALSE,
    !.screen     = RenderOutput(frame.bytes),
    !.frameCount = s.frameCount + 1,
    !.renderLog  = Append(s.renderLog, frame.seq),
    !.rendersInTurn = s.rendersInTurn + 1]

\* processNextFrame, with the whole queue rendered in one synchronous loop.
RECURSIVE ProcessNextFrameLoop(_)
ProcessNextFrameLoop(s) ==
  IF s.isProcessing \/ s.frameQueue = <<>> THEN s
  ELSE ProcessNextFrameLoop(
         [RenderFrame(Head(s.frameQueue), s) EXCEPT !.frameQueue = Tail(s.frameQueue)])

\* processNextFrame, taking the newest frame instead of the oldest.
ProcessNextFrameLifo(s) ==
  IF s.isProcessing \/ s.frameQueue = <<>> THEN s
  ELSE LET n     == Len(s.frameQueue)
           rest  == SubSeq(s.frameQueue, 1, n - 1)
           s1    == RenderFrame(s.frameQueue[n], s)
       IN  [s1 EXCEPT !.frameQueue = rest,
                      !.immediates = IF Len(rest) > 0 THEN s1.immediates + 1
                                     ELSE s1.immediates]

\* processNextFrame without the setImmediate for the frames that remain.
ProcessNextFrameNoReschedule(s) ==
  IF s.isProcessing \/ s.frameQueue = <<>> THEN s
  ELSE [RenderFrame(Head(s.frameQueue), s) EXCEPT !.frameQueue = Tail(s.frameQueue)]

\* processNextFrame (lines 167-180): at most one frame per call; when frames
\* remain, the next call is scheduled with setImmediate.
ProcessNextFrame(s) ==
  IF s.isProcessing \/ s.frameQueue = <<>> THEN s
  ELSE LET frame == Head(s.frameQueue)
           rest  == Tail(s.frameQueue)
           s1    == RenderFrame(frame, [s EXCEPT !.isProcessing = TRUE])
       IN  [s1 EXCEPT !.frameQueue   = rest,
                      !.isProcessing = FALSE,
                      !.immediates   = IF Len(rest) > 0 THEN s1.immediates + 1
                                       ELSE s1.immediates]

\* The renderer's variables as one record, at the start of a callback.
RenderState(queue) ==
  [ frameQueue |-> queue, isProcessing |-> isProcessing,
    firstFrame |-> firstFrame, frameCount |-> frameCount,
    immediates |-> immediates, termLog |-> termLog, screen |-> screen,
    renderLog |-> renderLog, rendersInTurn |-> 0 ]

SetRenderState(s) ==
  /\ frameQueue' = s.frameQueue
  /\ isProcessing' = s.isProcessing
  /\ firstFrame' = s.firstFrame
  /\ frameCount' = s.frameCount
  /\ immediates' = s.immediates
  /\ termLog' = s.termLog
  /\ screen' = s.screen
  /\ renderLog' = s.renderLog
  /\ rendersInTurn' = s.rendersInTurn

\* -------------------------------------------------------------- assembler
Seqs(queue) == [i \in 1..Len(queue) |-> queue[i].seq]

\* frameQueue.push(..), dropping the new frame instead of the oldest.
EnqueueDropNewest(queue, frame) ==
  IF Len(queue) >= MaxQueueLen THEN queue ELSE Append(queue, frame)

\* frameQueue.push(Buffer.from(frame));
\* if (frameQueue.length > 30) frameQueue.shift();      (lines 190-195)
Enqueue(queue, frame) ==
  LET pushed == Append(queue, frame)
  IN  IF Len(pushed) > MaxQueueLen THEN Tail(pushed) ELSE pushed

\* The while loop with the slice taken one byte late.
RECURSIVE SliceFramesShifted(_)
SliceFramesShifted(a) ==
  IF Len(a.buffer) > frameSize
  THEN LET frame == [seq |-> Len(a.assembled) + 1,
                     bytes |-> SubSeq(a.buffer, 2, frameSize + 1)]
       IN  SliceFramesShifted(
             [ buffer |-> SubSeq(a.buffer, frameSize + 1, Len(a.buffer)),
               frameQueue |-> Enqueue(a.frameQueue, frame),
               assembled |-> Append(a.assembled, frame.bytes),
               evicted |-> a.evicted,
               steps |-> a.steps ])
  ELSE a

\* while (buffer.length >= frameSize) { ... }            (lines 185-196)
\* a = [buffer, frameQueue, assembled, evicted, steps].
RECURSIVE SliceFrames(_)
SliceFrames(a) ==
  IF Len(a.buffer) >= frameSize
  THEN LET frame == [seq |-> Len(a.assembled) + 1,
                     bytes |-> SubSeq(a.buffer, 1, frameSize)]
           queue == Enqueue(a.frameQueue, frame)
           kept  == {queue[i].seq : i \in 1..Len(queue)}
           gone  == {a.frameQueue[i].seq : i \in 1..Len(a.frameQueue)} \ kept
       IN  SliceFrames(
             [ buffer |-> SubSeq(a.buffer, frameSize + 1, Len(a.buffer)),
               frameQueue |-> queue,
               assembled |-> Append(a.assembled, frame.bytes),
               evicted |-> a.evicted \cup gone
                             \cup (IF frame.seq \in kept THEN {} ELSE {frame.seq}),
               steps |-> Append(a.steps,
                           [ before |-> Seqs(a.frameQueue), frame |-> frame.seq,
                             after |-> Seqs(queue) ]) ])
  ELSE a

\* ---------------------------------------------------------------- teardown
\* ChildProcess.kill(): the signal is sent, and .killed set, only while the
\* process still has a handle (it was spawned and has not exited).
Kill(p) ==
  IF p.running THEN [p EXCEPT !.killed = TRUE, !.signals = p.signals + 1] ELSE p

\* if (p && !p.killed) p.kill();
KillOnce(p) == IF ~p.killed THEN Kill(p) ELSE p

TeardownSteps ==
  /\ cleanedUp' = TRUE
  /\ stdin' = [ raw      |-> IF isTTY THEN FALSE ELSE stdin.raw,
                flowing  |-> IF isTTY THEN FALSE ELSE stdin.flowing,
                listener |-> FALSE ]
  /\ ffmpeg' = KillOnce(ffmpeg)
  /\ audioPlayer' = KillOnce(audioPlayer)
  /\ termLog' = termLog \o <<"show", "clear">>
  /\ teardown' =
       [ setRawMode     |-> teardown.setRawMode + (IF isTTY THEN 1 ELSE 0),
         removeListener |-> teardown.removeListener + 1,
         ffmpegKill     |-> teardown.ffmpegKill + (IF ~ffmpeg.killed THEN 1 ELSE 0),
         audioKill      |-> teardown.audioKill
                              + (IF ~audioPlayer.killed THEN 1 ELSE 0),
         showCursor     |-> teardown.showCursor + 1,
         clear          |-> teardown.clear + 1 ]

\* cleanup without its one-shot guard.
CleanupUnguarded == TeardownSteps

\* cleanup (lines 206-220): if (cleanedUp) return; cleanedUp = true; ...
Cleanup ==
  IF cleanedUp THEN UNCHANGED << cleanupVars, termLog >>
  ELSE TeardownSteps

\* resolve(): settles the promise; later calls change nothing but are counted.
Resolve ==
  /\ resolved' = TRUE
  /\ resolveCalls' = resolveCalls + 1

\* ------------------------------------------------------------- event loop
\* A failed spawn emits 'error' from process.nextTick, before any I/O
\* callback of the session; the audio player is spawned first.
AudioErrorPending == audioPlayer.spawn # "ok" /\ ~events.audioError
FfmpegErrorPending == ffmpeg.spawn # "ok" /\ ~events.ffmpegError

\* The process is alive and the next-tick queue is empty: I/O callbacks run.
Polling == ~crashed /\ ~AudioErrorPending /\ ~FfmpegErrorPending

otherVars == << graceTimer, resolved, resolveCalls, crashed, events, reports >>

\* ffmpeg.stdout.on('data', chunk => ...)                (lines 182-202)
DataEvent(chunk) ==
  /\ Polling
  /\ ffmpeg.spawn = "ok"
  /\ ~events.ffmpegClose
  /\ frameSize > 0
  /\ LET a == SliceFrames([ buffer |-> buffer \o chunk, frameQueue |-> frameQueue,
                            assembled |-> assembled, evicted |-> evicted,
                            steps |-> <<>> ])
         s == IF ~isProcessing THEN ProcessNextFrame(RenderState(a.frameQueue))
              ELSE RenderState(a.frameQueue)
     IN  /\ stream' = stream \o chunk
         /\ buffer' = a.buffer
         /\ assembled' = a.assembled
         /\ evicted' = a.evicted
         /\ enqueueSteps' = a.steps
         /\ SetRenderState(s)
  /\ UNCHANGED << configVars, cleanupVars, otherVars, glyphVars, callVars >>

\* A callback scheduled by setImmediate(processNextFrame) runs.
Immediate ==
  /\ ~crashed
  /\ immediates > 0
  /\ SetRenderState(ProcessNextFrame(
       [RenderState(frameQueue) EXCEPT !.immediates = immediates - 1]))
  /\ UNCHANGED << configVars, assemblerVars, cleanupVars, otherVars, glyphVars, callVars >>

idleRenderVars == << frameQueue, isProcessing, firstFrame, frameCount,
                     immediates, screen, renderLog, rendersInTurn >>

\* onKeyPress(key)                                        (lines 223-230)
KeyPress(key) ==
  /\ Polling
  /\ stdin.listener /\ stdin.flowing
  /\ IF IsCancelKey(key)
     THEN /\ Cleanup
          /\ graceTimer' = "pending"
     ELSE UNCHANGED << cleanupVars, termLog, graceTimer >>
  /\ UNCHANGED << configVars, assemblerVars, idleRenderVars, resolved,
                  resolveCalls, crashed, events, reports, glyphVars, callVars >>

\* The 100 ms timer of onKeyPress fires: resolve().
GraceTimer ==
  /\ ~crashed
  /\ graceTimer = "pending"
  /\ graceTimer' = "fired"
  /\ Resolve
  /\ UNCHANGED << configVars, assemblerVars, renderVars, cleanupVars, crashed,
                  events, reports, glyphVars, callVars >>

\* ffmpeg.on('error', err => ...)                         (lines 239-248)
FfmpegError ==
  /\ ~crashed
  /\ ~AudioErrorPending
  /\ FfmpegErrorPending
  /\ events' = [events EXCEPT !.ffmpegError = TRUE]
  /\ reports' = IF ffmpeg.spawn = "ENOENT" THEN reports + 1 ELSE reports
  /\ Cleanup
  /\ Resolve
  /\ UNCHANGED << configVars, assemblerVars, idleRenderVars, graceTimer, crashed,
                  glyphVars, callVars >>

\* The decoder process exits (end of input, or the signal of kill()); its
\* 'exit' event has no listener.  stdout may still hold unread data.
FfmpegExit ==
  /\ Polling
  /\ ffmpeg.running
  /\ ffmpeg' = [ffmpeg EXCEPT !.running = FALSE]
  /\ UNCHANGED << configVars, assemblerVars, renderVars, cleanedUp, stdin,
                  audioPlayer, teardown, otherVars, glyphVars, callVars >>

\* ffmpeg.on('close', () => ...)                          (lines 250-253)
\* Emitted once the process has ended and its stdout is closed.
FfmpegClose ==
  /\ Polling
  /\ ~ffmpeg.running
  /\ ~events.ffmpegClose
  /\ events' = [events EXCEPT !.ffmpegClose = TRUE]
  /\ Cleanup
  /\ Resolve
  /\ UNCHANGED << configVars, assemblerVars, idleRenderVars, graceTimer, crashed,
                  reports, glyphVars, callVars >>

\* The audio player exits by itself (-autoexit) or after kill().
AudioExit ==
  /\ Polling
  /\ audioPlayer.running
  /\ audioPlayer' = [audioPlayer EXCEPT !.running = FALSE]
  /\ UNCHANGED << configVars, assemblerVars, renderVars, cleanedUp, stdin,
                  ffmpeg, teardown, otherVars, glyphVars, callVars >>

\* spawn(audioPlayerCmd, ...) failed (lines 100-102): the 'error' event of
\* audioPlayer has no listener, so EventEmitter throws and the process dies.
AudioError ==
  /\ ~crashed
  /\ AudioErrorPending
  /\ events' = [events EXCEPT !.audioError = TRUE]
  /\ crashed' = TRUE
  /\ UNCHANGED << configVars, assemblerVars, renderVars, cleanupVars, graceTimer,
                  resolved, resolveCalls, reports, glyphVars, callVars >>

\* ---------------------------------------------------------- specifications
Widths == 4..MaxWidth

\* Key chunks read from stdin in raw mode: Ctrl+C, q, Q, x, "qq", Ctrl+C x.
Keys == { <<CtrlC>>, <<113>>, <<81>>, <<120>>, <<113, 113>>, <<CtrlC, 120>> }

SpawnResults == {"ok", "ENOENT", "EACCES"}

Child(result) ==
  [ spawn |-> result, running |-> result = "ok", killed |-> FALSE, signals |-> 0 ]

\* The call chain of a running session: playVideo called playVideoAscii, whose
\* terminal test (line 92) passed; the menu awaits the session's promise.
SessionCall ==
  [ pc |-> "session", depth |-> 2, asciiMode |-> TRUE, isWindows |-> FALSE,
    wtSession |-> FALSE, termProgram |-> FALSE, spawn |-> "ok",
    playerStarted |-> FALSE, browser |-> FALSE, awaited |-> "ascii",
    menuResolved |-> FALSE ]

\* The state when the executor of the promise returns (lines 85-253).
InitSession(w, charsetName, tty, ffmpegResult, audioResult) ==
  /\ width = w
  /\ frameSize = FrameSize(w)
  /\ chars = Chars(charsetName)
  /\ isTTY = tty
  /\ buffer = <<>>
  /\ frameQueue = <<>>
  /\ isProcessing = FALSE
  /\ firstFrame = TRUE
  /\ frameCount = 0
  /\ immediates = 0
  /\ cleanedUp = FALSE
  /\ stdin = [raw |-> tty, flowing |-> tty, listener |-> tty]
  /\ ffmpeg = Child(ffmpegResult)
  /\ audioPlayer = Child(audioResult)
  /\ graceTimer = "none"
  /\ resolved = FALSE
  /\ resolveCalls = 0
  /\ crashed = FALSE
  /\ events = [audioError |-> FALSE, ffmpegError |-> FALSE, ffmpegClose |-> FALSE]
  /\ reports = 0
  /\ termLog = <<>>
  /\ screen = <<>>
  /\ teardown = [ setRawMode |-> 0, removeListener |-> 0, ffmpegKill |-> 0,
                  audioKill |-> 0, showCursor |-> 0, clear |-> 0 ]
  /\ stream = <<>>
  /\ assembled = <<>>
  /\ evicted = {}
  /\ renderLog = <<>>
  /\ enqueueSteps = <<>>
  /\ rendersInTurn = 0
  /\ loopPc = "idle"

Init ==
  /\ \E w \in Widths, name \in CharsetNames, tty \in BOOLEAN,
        f \in SpawnResults, a \in SpawnResults :
       InitSession(w, name, tty, f, a)
  /\ pixel = <<0, 0, 0>>
  /\ charIndex = <<>>
  /\ call = SessionCall

\* Chunks of a session: every length up to MaxChunk.
Data ==
  \E n \in 1..MaxChunk :
    /\ Len(stream) + n <= MaxStream
    /\ DataEvent(Chunk(n, Len(stream)))

Key == \E key \in Keys : KeyPress(key)

Next ==
  \/ Data
  \/ Immediate
  \/ Key
  \/ GraceTimer
  \/ FfmpegError
  \/ FfmpegExit
  \/ FfmpegClose
  \/ AudioExit
  \/ AudioError

Spec == Init /\ [][Next]_vars

\* Burst specification: the decoder outruns the renderer and one 'data'
\* event carries up to BurstFrames frames, so the queue overflows.
InitBurst ==
  /\ \E w \in Widths : InitSession(w, "standard", TRUE, "ok", "ok")
  /\ pixel = <<0, 0, 0>>
  /\ charIndex = <<>>
  /\ call = SessionCall

\* Chunk lengths of the burst specification: part of a frame, one frame, and
\* bursts that overflow the queue, one of them ending inside a frame.
BurstLens ==
  { 5, frameSize, (BurstFrames - 1) * frameSize, BurstFrames * frameSize + 5 }

DataBurst ==
  \E n \in BurstLens :
    /\ Len(stream) + n <= MaxBurstStream * frameSize
    /\ DataEvent(Chunk(n, Len(stream)))

NextBurst ==
  \/ DataBurst
  \/ Immediate

SpecBurst == InitBurst /\ [][NextBurst]_vars

\* Drain specification: whole frames and overflowing bursts arrive, and the
\* event loop is fair: the check phase of every loop iteration runs the
\* callbacks scheduled with setImmediate.
DrainLens ==
  { frameSize, (BurstFrames - 1) * frameSize, BurstFrames * frameSize + 5 }

DataDrain ==
  \E n \in DrainLens :
    /\ Len(stream) + n <= MaxBurstStream * frameSize
    /\ DataEvent(Chunk(n, Len(stream)))

NextDrain ==
  \/ DataDrain
  \/ Immediate

FairDrain == InitBurst /\ [][NextDrain]_vars /\ WF_vars(Immediate)

\* Glyph specification: renderFrame's per-pixel mapping on one pixel.
\* charIndex depends on r + g + b alone; Pixels covers every sum 0..765.
Pixels == { <<r, g, b>> : r \in 0..MaxByte, g \in {0, MaxByte}, b \in {0, MaxByte} }

InitGlyph ==
  /\ \E name \in CharsetNames : InitSession(4, name, TRUE, "ok", "ok")
  /\ pixel \in Pixels
  /\ charIndex = <<>>
  /\ call = SessionCall

\* One iteration of the pixel loop of renderFrame (lines 147-154).
RenderPixel ==
  /\ charIndex = <<>>
  /\ charIndex' = << CharIndex(pixel[1], pixel[2], pixel[3], chars) >>
  /\ UNCHANGED << configVars, assemblerVars, renderVars, cleanupVars, otherVars,
                  pixel, callVars >>

NextGlyph == RenderPixel

SpecGlyph == InitGlyph /\ [][NextGlyph]_vars

\* Loop specification: the 'data' handler one loop iteration at a time, for
\* every positive width up to MaxWidth (width 1..3 gives height 0).
InitSlice ==
  /\ \E w \in 1..MaxWidth : InitSession(w, "standard", TRUE, "ok", "ok")
  /\ pixel = <<0, 0, 0>>
  /\ charIndex = <<>>
  /\ call = SessionCall

\* buffer = Buffer.concat([buffer, chunk]);                (line 183)
ChunkArrives ==
  /\ loopPc = "idle"
  /\ \E n \in 1..MaxChunk :
       /\ Len(stream) + n <= MaxStream
       /\ buffer' = buffer \o Chunk(n, Len(stream))
       /\ stream' = stream \o Chunk(n, Len(stream))
  /\ enqueueSteps' = <<>>
  /\ loopPc' = "slicing"
  /\ UNCHANGED << configVars, assembled, evicted, renderVars, cleanupVars,
                  otherVars, glyphVars, call >>

\* One iteration of while (buffer.length >= frameSize) { ... } (lines 185-196).
SliceStep ==
  /\ loopPc = "slicing"
  /\ Len(buffer) >= frameSize
  /\ Len(assembled) < MaxSliceSteps
  /\ LET frame == [seq |-> Len(assembled) + 1,
                   bytes |-> SubSeq(buffer, 1, frameSize)]
         queue == Enqueue(frameQueue, frame)
         kept  == {queue[i].seq : i \in 1..Len(queue)}
     IN  /\ buffer' = SubSeq(buffer, frameSize + 1, Len(buffer))
         /\ frameQueue' = queue
         /\ assembled' = Append(assembled, frame.bytes)
         /\ evicted' = evicted \cup (({frame.seq} \cup
                         {frameQueue[i].seq : i \in 1..Len(frameQueue)}) \ kept)
         /\ enqueueSteps' = Append(enqueueSteps,
                              [ before |-> Seqs(frameQueue), frame |-> frame.seq,
                                after |-> Seqs(queue) ])
  /\ UNCHANGED << configVars, stream, isProcessing, firstFrame, frameCount,
                  immediates, termLog, screen, renderLog, rendersInTurn,
                  cleanupVars, otherVars, glyphVars, callVars >>

\* The loop condition fails: if (!isProcessing) processNextFrame();
\*                                                         (lines 198-201)
SliceDone ==
  /\ loopPc = "slicing"
  /\ Len(buffer) < frameSize
  /\ SetRenderState(IF ~isProcessing THEN ProcessNextFrame(RenderState(frameQueue))
                    ELSE RenderState(frameQueue))
  /\ loopPc' = "idle"
  /\ UNCHANGED << configVars, assemblerVars, cleanupVars, otherVars, glyphVars,
                  call >>

\* A setImmediate callback runs between two 'data' handlers.
ImmediateBetween ==
  /\ loopPc = "idle"
  /\ Immediate

NextSlice ==
  \/ ChunkArrives
  \/ SliceStep
  \/ SliceDone
  \/ ImmediateBetween

SpecSlice == InitSlice /\ [][NextSlice]_vars

\* Fallback specification: the call chain from the menu's await of
\* playVideo(url) (line 600) up to the start of a player or of the ASCII
\* session.  call.depth counts the frames playVideo / playVideoAscii on the
\* stack; the stack holds MaxStack of them.  The session's variables keep the
\* values the executor gives them and are not touched.
Unsupported(c) == c.isWindows /\ ~c.wtSession /\ ~c.termProgram

InitFallback ==
  /\ InitSession(4, "standard", TRUE, "ok", "ok")
  /\ pixel = <<0, 0, 0>>
  /\ charIndex = <<>>
  /\ \E ascii \in BOOLEAN, win \in BOOLEAN, wt \in BOOLEAN, term \in BOOLEAN,
        result \in SpawnResults :
       call = [ pc |-> "playVideo", depth |-> 1, asciiMode |-> ascii,
                isWindows |-> win, wtSession |-> wt, termProgram |-> term,
                spawn |-> result, playerStarted |-> FALSE, browser |-> FALSE,
                awaited |-> "none", menuResolved |-> FALSE ]

\* function playVideo(url)                                  (lines 51-64)
\* The promise the outermost call returns is the one the menu awaits; the
\* value a nested call returns to the executor is dropped.
PlayVideo ==
  /\ call.pc = "playVideo"
  /\ call.depth <= MaxStack
  /\ IF call.asciiMode
     THEN call' = [call EXCEPT !.pc = "playVideoAscii",
                               !.depth = @ + 1,
                               !.awaited = IF call.depth = 1 THEN "ascii" ELSE @]
     ELSE call' = [call EXCEPT !.pc = "player",
                               !.playerStarted = TRUE,
                               !.awaited = IF call.depth = 1 THEN "player" ELSE @]
  /\ UNCHANGED << configVars, assemblerVars, renderVars, cleanupVars, otherVars,
                  glyphVars, loopPc >>

\* function playVideoAscii(url): the executor up to the terminal test
\*                                                           (lines 84-96)
PlayVideoAscii ==
  /\ call.pc = "playVideoAscii"
  /\ call.depth <= MaxStack
  /\ IF Unsupported(call)
     THEN call' = [call EXCEPT !.pc = "playVideo", !.depth = @ + 1]
     ELSE call' = [call EXCEPT !.pc = "session"]
  /\ UNCHANGED << configVars, assemblerVars, renderVars, cleanupVars, otherVars,
                  glyphVars, loopPc >>

\* The stack is full: the next call throws RangeError.  The innermost
\* executor on the stack turns it into a rejection of its own promise, which
\* has no handler; the executors below return normally and their promises
\* stay pending.  The runtime either terminates the process on the unhandled
\* rejection or only warns, and then the awaited promise is pending for ever.
StackOverflow ==
  /\ call.pc \in {"playVideo", "playVideoAscii"}
  /\ call.depth > MaxStack
  /\ \E outcome \in {"crashed", "pending"} :
       call' = [call EXCEPT !.pc = outcome]
  /\ UNCHANGED << configVars, assemblerVars, renderVars, cleanupVars, otherVars,
                  glyphVars, loopPc >>

\* player.on('error', ...)                                  (lines 66-76)
PlayerError ==
  /\ call.pc = "player"
  /\ call.spawn # "ok"
  /\ call' = [call EXCEPT !.pc = "done",
                          !.browser = call.isWindows /\ call.spawn = "ENOENT",
                          !.menuResolved = (call.awaited = "player")]
  /\ UNCHANGED << configVars, assemblerVars, renderVars, cleanupVars, otherVars,
                  glyphVars, loopPc >>

\* player.on('close', ...)                                  (lines 78-80)
PlayerClose ==
  /\ call.pc = "player"
  /\ call.spawn = "ok"
  /\ call' = [call EXCEPT !.pc = "done",
                          !.menuResolved = (call.awaited = "player")]
  /\ UNCHANGED << configVars, assemblerVars, renderVars, cleanupVars, otherVars,
                  glyphVars, loopPc >>

NextFallback ==
  \/ PlayVideo
  \/ PlayVideoAscii
  \/ StackOverflow
  \/ PlayerError
  \/ PlayerClose

SpecFallback == InitFallback /\ [][NextFallback]_vars

\* ------------------------------------------------------------------ claims
Sum(p) == p[1] + p[2] + p[3]

\* A cancel key has been handled (its grace timer was set).
Cancelled == graceTimer # "none"

\* C1: once a cancel key has been handled and cleanup has run, renderFrame
\* is not invoked again, whatever data events and setImmediate callbacks
\* are still to come.
C1_NoRenderAfterCancel ==
  [][(Cancelled /\ cleanedUp) => renderLog' = renderLog]_vars

\* C2: teardown is one-shot.  However many of the triggers (cancel key,
\* decoder 'close', decoder 'error') occur, the body of cleanup runs exactly
\* once: each of its steps has run once (setRawMode(false) only on a TTY, as
\* coded), each child process is sent at most one signal, and when the
\* decoder has been signalled, kill() has been called on the audio player,
\* which got its signal unless it had already exited.
C2_TeardownOneShot ==
  LET triggered == Cancelled \/ events.ffmpegError \/ events.ffmpegClose
      ran == IF cleanedUp THEN 1 ELSE 0
  IN  /\ cleanedUp <=> triggered
      /\ teardown.setRawMode = (IF isTTY THEN ran ELSE 0)
      /\ teardown.removeListener = ran
      /\ teardown.ffmpegKill = ran
      /\ teardown.audioKill = ran
      /\ teardown.showCursor = ran
      /\ teardown.clear = ran
      /\ ffmpeg.signals <= 1
      /\ audioPlayer.signals <= 1
      /\ ffmpeg.signals = 1 =>
           /\ teardown.audioKill = 1
           /\ audioPlayer.signals = 1 \/ ~audioPlayer.running

C2_Witness ==
  /\ Cancelled
  /\ events.ffmpegClose
  /\ resolveCalls >= 2
  /\ ffmpeg.signals = 1
  /\ audioPlayer.signals = 1

\* C3: after a cancel key, the promise of playVideoAscii is not resolved
\* before the 100 ms grace timer has fired.
C3_ResolvedOnlyAfterGrace == (graceTimer = "pending") => ~resolved

\* C4: a subprocess failure (decoder launch failure or exit, audio player
\* launch failure) is absorbed: it is followed by teardown and by the promise
\* resolving, and never by an unhandled error that ends the process.
C4_FailureAbsorbed ==
  /\ ~crashed
  /\ (events.ffmpegError \/ events.ffmpegClose \/ events.audioError) =>
       cleanedUp /\ resolved

\* C5: the queue never holds more than 30 frames after an enqueue step, and
\* enqueuing into a queue of 30 yields the old queue without its oldest
\* frame, followed by the new frame.
C5_BoundedDropOldest ==
  /\ Len(frameQueue) <= MaxQueueLen
  /\ \A i \in 1..Len(enqueueSteps) :
       LET step == enqueueSteps[i]
       IN  /\ Len(step.after) <= MaxQueueLen
           /\ Len(step.before) = MaxQueueLen =>
                step.after = Append(Tail(step.before), step.frame)

C5_Witness ==
  \E i \in 1..Len(enqueueSteps) :
    /\ Len(enqueueSteps[i].before) = MaxQueueLen
    /\ Len(enqueueSteps[i].after) = MaxQueueLen

\* C6: the frames passed to renderFrame are a subsequence of the frames
\* assembled: rendered in assembly order, each at most once, and never a
\* frame that was evicted from the queue.
C6_RenderedInFifoOrder ==
  /\ \A i \in 1..Len(renderLog) :
       /\ renderLog[i] \in 1..Len(assembled)
       /\ renderLog[i] \notin evicted
       /\ i > 1 => renderLog[i - 1] < renderLog[i]
  /\ \A i \in 1..Len(frameQueue) :
       \A j \in 1..Len(renderLog) : renderLog[j] < frameQueue[i].seq

C6_Witness ==
  /\ evicted # {}
  /\ Len(renderLog) >= 3
  /\ \E i \in 1..Len(renderLog) : \E e \in evicted :
       i > 1 /\ renderLog[i - 1] < e /\ e < renderLog[i]

\* C7: the assembler has emitted exactly floor(total / frameSize) frames, the
\* k-th being bytes [k * frameSize, (k + 1) * frameSize) of the concatenated
\* chunks, and holds back exactly the last total mod frameSize bytes; every
\* queued frame is one of the emitted frames.
C7_AssemblerSlices ==
  LET total == Len(stream)
  IN  /\ Len(assembled) = total \div frameSize
      /\ \A k \in 1..Len(assembled) :
           assembled[k] = SubSeq(stream, (k - 1) * frameSize + 1, k * frameSize)
      /\ buffer = SubSeq(stream, total - (total % frameSize) + 1, total)
      /\ total % frameSize = 0 => buffer = <<>>
      /\ \A i \in 1..Len(frameQueue) :
           /\ frameQueue[i].seq \in 1..Len(assembled)
           /\ frameQueue[i].bytes = assembled[frameQueue[i].seq]

C7_Witness ==
  /\ Len(assembled) >= 2
  /\ Len(buffer) = 7
  /\ frameQueue # <<>>

C9_ResolvedIsTerminal ==
  /\ [](resolved => cleanedUp)
  /\ [][resolved => /\ renderLog' = renderLog
                    /\ termLog' = termLog
                    /\ ffmpeg'.signals = ffmpeg.signals
                    /\ audioPlayer'.signals = audioPlayer.signals]_vars

\* C10: the glyph index of a pixel lies in 0..rampLength-1, is 0 for
\* brightness 0, rampLength-1 for brightness 255, and no darker pixel has a
\* larger index.
C10_GlyphIndex ==
  charIndex # <<>> =>
    /\ charIndex[1] \in 0..(Len(chars) - 1)
    /\ Sum(pixel) = 0 => charIndex[1] = 0
    /\ Sum(pixel) = 3 * MaxByte => charIndex[1] = Len(chars) - 1
    /\ \A q \in Pixels :
         Sum(q) <= Sum(pixel) => CharIndex(q[1], q[2], q[3], chars) <= charIndex[1]

C10_Witness ==
  /\ charIndex = <<9>>
  /\ pixel = <<MaxByte, MaxByte, MaxByte>>
  /\ Len(chars) = 10

\* C11 (as claimed): every ramp the renderer can be configured with has at
\* least 2 characters.
C11_RampAtLeastTwo == Len(chars) >= 2

\* C11 (amended): every ramp the renderer can be configured with, the
\* fallback included, has at least 1 character, and every ramp other than
\* CHARSETS.solid has at least 2.
C11_RampNonEmpty ==
  /\ Len(chars) >= 1
  /\ chars # CHARSETS.solid => Len(chars) >= 2

C11_Witness ==
  /\ chars = CHARSETS.solid
  /\ charIndex = <<0>>
  /\ Sum(pixel) = 3 * MaxByte

\* C12: once teardown has written cursor-show and cleared the screen, no
\* cursor-hide and no first-frame clear is written any more: after cleanup
\* the terminal log ends with the "show", "clear" of cleanup.
C12_TerminalStaysRestored ==
  cleanedUp =>
    /\ Len(termLog) >= 2
    /\ termLog[Len(termLog) - 1] = "show"
    /\ termLog[Len(termLog)] = "clear"

\* C13: for every positive width, height and frameSize are positive, and
\* every iteration of the slicing loop strictly shrinks the pending buffer
\* (so the handling of a chunk terminates).
C13_SliceLoopTerminates ==
  [][loopPc = "slicing" =>
       /\ Height(width) > 0
       /\ frameSize > 0
       /\ loopPc' = "slicing" => Len(buffer') < Len(buffer)]_vars

\* C14: whenever a callback ends with frames in the queue, a
\* processNextFrame callback is scheduled; under a fair event loop the queue
\* is eventually empty for good and every assembled frame has then been
\* rendered or evicted.
C14_NoFrameStranded ==
  /\ [](frameQueue # <<>> => immediates > 0)
  /\ <>[](/\ frameQueue = <<>>
          /\ \A k \in 1..Len(assembled) :
               k \in evicted \/ \E j \in 1..Len(renderLog) : renderLog[j] = k)

C14_Witness ==
  /\ frameQueue = <<>>
  /\ evicted # {}
  /\ Len(assembled) >= BurstFrames
  /\ Len(renderLog) + Cardinality(evicted) = Len(assembled)

\* C15: with ASCII mode enabled on the unsupported Windows terminal (neither
\* WT_SESSION nor TERM_PROGRAM set), playback falls back to normal mode: the
\* call chain is playVideo -> playVideoAscii -> playVideo and no deeper, the
\* stack never overflows, and when the chain has ended the normal player was
\* started and the promise the menu awaits is resolved.
C15_FallbackToNormal ==
  (call.asciiMode /\ Unsupported(call)) =>
    /\ call.depth <= 3
    /\ call.pc \notin {"crashed", "pending"}
    /\ call.pc = "done" => call.playerStarted /\ call.menuResolved

====
